---- MODULE Spec2Model ----
(***************************************************************************)
(* Model of gmail-mcp: the calendar processing core                        *)
(* (src/gmail_mcp/calendar/processor.py), the credential provider          *)
(* (src/gmail_mcp/auth/oauth.py) and the draft/send e-mail tools           *)
(* (src/gmail_mcp/mcp/tools.py).                                           *)
(*                                                                         *)
(* Time.  A datetime is a record [k |-> "dt", t, aware, off]: t is the     *)
(* wall-clock reading in seconds since Monday 2024-02-26 00:00:00 (day 0), *)
(* aware tells whether it carries a tzinfo and off is its UTC offset in    *)
(* minutes (0 when naive).  Python refuses to order or subtract a naive    *)
(* and an aware datetime (TypeError); the operators below expose that as   *)
(* Comparable.                                                             *)
(*                                                                         *)
(* Text.  A phrase is a record tagged by k:                                *)
(*   "empty"    the empty string                                           *)
(*   "iso"      a string datetime.fromisoformat accepts (d, s, aware, off, *)
(*              z = written with a Z suffix)                               *)
(*   "word"     "today" / "tomorrow" / "yesterday"                         *)
(*   "weekday"  "<next|this> <weekday>[ at <time token>]"                  *)
(*   "range"    "<pre> <time token>-<time token>"                          *)
(*   "fuzzy"    any other text dateutil's fuzzy parser resolves (to dt);   *)
(*              year_token: the text names a 4-digit year, word_year: the  *)
(*              text contains the letters "year"                           *)
(*   "junk"     text no parser accepts                                     *)
(* A time token is what the regex \d{1,2}(?::\d{2})?\s*(?:am|pm)? captures:*)
(* [h, m, ap] with m = -1 when the minutes are absent and ap = "" when     *)
(* am/pm is absent.                                                        *)
(***************************************************************************)
EXTENDS Integers, Sequences, FiniteSets, TLC

VARIABLES now, creds, op, args, backend, ret, raised, calls, drafts, sent, confirmed, pc, held, session, _state

vars == <<now, creds, op, args, backend, ret, raised, calls, drafts, sent, confirmed, pc, held, session, _state>>

(***************************************************************************)
(* Bounds of the model                                                     *)
(***************************************************************************)
MaxDays == 3
MaxBusy == 2
MaxDrafts == 3

(***************************************************************************)
(* Calendar constants                                                      *)
(***************************************************************************)
DaySeconds == 86400
HourSeconds == 3600
SlotStepMinutes == 30
SlotCap == 10
DefaultDurationMinutes == 60

NoneV == [k |-> "None"]

(***************************************************************************)
(* datetime values                                                         *)
(***************************************************************************)
DT(t, aware, off) == [k |-> "dt", t |-> t, aware |-> aware, off |-> off]

Naive(t) == DT(t, FALSE, 0)

At(d, h, m, s) == d * DaySeconds + h * HourSeconds + m * 60 + s

DayOf(dt) == dt.t \div DaySeconds

SecOfDay(dt) == dt.t % DaySeconds

HourOf(dt) == SecOfDay(dt) \div HourSeconds

MinuteOf(dt) == (SecOfDay(dt) % HourSeconds) \div 60

SecondOf(dt) == SecOfDay(dt) % 60

\* datetime.weekday(): 0 = Monday ... 6 = Sunday (day 0 is a Monday)
Weekday(dt) == DayOf(dt) % 7

\* datetime.replace(hour=h, minute=m, second=s, microsecond=0): ValueError
\* (ok = FALSE) when a field is out of range
ReplaceOk(h, m, s) == h \in 0..23 /\ m \in 0..59 /\ s \in 0..59

Replace(dt, h, m, s) == [dt EXCEPT !.t = At(DayOf(dt), h, m, s)]

\* datetime.replace(hour=h, minute=m): the seconds are kept
ReplaceHM(dt, h, m) == [dt EXCEPT !.t = At(DayOf(dt), h, m, SecondOf(dt))]

\* dt + timedelta(seconds=n)
Plus(dt, n) == [dt EXCEPT !.t = dt.t + n]

\* the instant on the UTC time line (aware values only)
Utc(dt) == dt.t - dt.off * 60

\* ordering and subtraction raise TypeError unless both are naive or both aware
Comparable(a, b) == a.aware = b.aware

Lt(a, b) == IF a.aware THEN Utc(a) < Utc(b) ELSE a.t < b.t

Le(a, b) == IF a.aware THEN Utc(a) <= Utc(b) ELSE a.t <= b.t

\* (a - b).total_seconds()
Diff(a, b) == IF a.aware THEN Utc(a) - Utc(b) ELSE a.t - b.t

\* datetime.year: 2024-01-01 is day -56 and 2024-12-31 day 309
YearOf(dt) ==
    IF DayOf(dt) < -56 THEN 2023 ELSE IF DayOf(dt) <= 309 THEN 2024 ELSE 2025

\* datetime.replace(year=year) on a date of the year before: the same month
\* and day one year on (365 days on before 2023-03-01, day -362, else 366
\* days on, 2024 being a leap year)
ReplaceYear(dt, year) ==
    IF YearOf(dt) = year - 1
    THEN Plus(dt, (IF DayOf(dt) < -362 THEN 365 ELSE 366) * DaySeconds)
    ELSE dt

(***************************************************************************)
(* str <-> datetime                                                        *)
(***************************************************************************)
\* datetime.isoformat()
IsoFormat(dt) ==
    [k |-> "iso", d |-> DayOf(dt), s |-> SecOfDay(dt), aware |-> dt.aware,
     off |-> dt.off, z |-> FALSE]

\* an ISO reader that keeps the wall-clock reading and forgets the offset
FromIsoWallClock(p) == DT(At(p.d, 0, 0, p.s), p.aware, 0)

\* datetime.fromisoformat(s) after 'Z' has been replaced by '+00:00'
FromIso(p) == DT(At(p.d, 0, 0, p.s), p.aware, p.off)

\* dateutil parser.parse on one time token: "Ham" takes any hour below 24,
\* "H:MMam" wants a 12-hour clock reading, "H:MM" a 24-hour one, and a bare
\* number is read as a day of the month (as a year above 31)
TimeTokenOk(tok) ==
    IF tok.ap # "" /\ tok.m = -1 THEN tok.h < 24
    ELSE IF tok.ap # "" THEN tok.h <= 12 /\ tok.m <= 59
    ELSE IF tok.m # -1 THEN tok.h <= 23 /\ tok.m <= 59
    ELSE (tok.h >= 1 /\ tok.h <= 31) \/ tok.h > 31

TimeTokenHour(tok) ==
    IF tok.ap = "pm" /\ tok.h < 12 THEN tok.h + 12
    ELSE IF tok.ap = "am" /\ tok.h = 12 THEN 0
    ELSE IF tok.ap = "" /\ tok.m = -1 THEN 0
    ELSE tok.h

TimeTokenMinute(tok) == IF tok.m = -1 THEN 0 ELSE tok.m

NoTok == [h |-> -1, m |-> -1, ap |-> "none"]

(***************************************************************************)
(* parse_natural_language_datetime                                         *)
(***************************************************************************)
\* dateutil parser.parse(text, fuzzy=True) on text that is none of the
\* phrase shapes handled before it: a bare number n is the n-th of the
\* current month (March 2024, whose 1st is day 4) at midnight, a "fuzzy"
\* phrase resolves to its dt, a range
\* phrase to whatever the library makes of the whole text (its fz field)
FuzzyBare(n) == Naive(At(n + 3, 0, 0, 0))

\* line 147: "year" not in datetime_str.lower()
HasWordYear(p) == p.k = "fuzzy" /\ p.word_year

\* lines 146-148: a result in the year before the reference is moved to the
\* reference year unless the text contains "year"
YearOverride(p, parsed_dt, reference_date) ==
    IF ~HasWordYear(p) /\ YearOf(parsed_dt) = YearOf(reference_date) - 1
    THEN ReplaceYear(parsed_dt, YearOf(reference_date))
    ELSE parsed_dt

\* dateutil fills the fields a text does not give from its default, the
\* day datetime.now() falls on at 00:00: a time of day alone ("4pm",
\* "17:45") resolves on the day of the wall clock
FuzzyTimeOnly(tok, clock) ==
    IF TimeTokenOk(tok) /\ (tok.ap # "" \/ tok.m # -1)
    THEN Replace(clock, TimeTokenHour(tok), TimeTokenMinute(tok), 0)
    ELSE NoneV

FuzzyParse(p, reference_date, clock) ==
    LET parsed_dt == IF p.k = "fuzzy" THEN p.dt
                     ELSE IF p.k = "range" THEN p.fz
                     ELSE IF p.k = "time" THEN FuzzyTimeOnly(p.at, clock)
                     ELSE IF p.k = "bare" THEN FuzzyBare(p.n)
                     ELSE NoneV
    IN  IF parsed_dt = NoneV THEN NoneV
        ELSE YearOverride(p, parsed_dt, reference_date)

\* the text starts with "next <weekday>" / "this <weekday>"
StartsWithWeekday(p) ==
    \/ p.k = "weekday"
    \/ p.k = "range" /\ p.pre.k = "weekday"

WeekdayPart(p) == IF p.k = "weekday" THEN p ELSE p.pre

\* "next X" without the push to the following week
DaysUntilNoForce(rel, day_num, current_day_num) == (day_num - current_day_num) % 7

\* days_until for "next X" (lines 97-100) and "this X" (lines 122-123)
DaysUntil(rel, day_num, current_day_num) ==
    LET days_until == (day_num - current_day_num) % 7
    IN  IF rel = "next" /\ days_until = 0 THEN 7 ELSE days_until

\* the optional "at <time>" clause overlaid on the computed date
OverlayAt(result_date, tok) ==
    IF tok = NoTok THEN result_date
    ELSE IF TimeTokenOk(tok)
         THEN ReplaceHM(result_date, TimeTokenHour(tok), TimeTokenMinute(tok))
         ELSE result_date

WeekdayPhrase(w, reference_date) ==
    LET today == Replace(reference_date, 0, 0, 0)
        days_until == DaysUntil(w.rel, w.wd, Weekday(reference_date))
    IN  OverlayAt(Plus(today, days_until * DaySeconds), w.at)

parse_natural_language_datetime(p, reference_date, clock) ==
    IF p.k \in {"empty", "None"} THEN NoneV
    ELSE IF p.k = "iso" THEN FromIso(p)
    ELSE LET today == Replace(reference_date, 0, 0, 0)
         IN  IF p.k = "word"
             THEN IF p.w = "today" THEN today
                  ELSE IF p.w = "tomorrow" THEN Plus(today, DaySeconds)
                  ELSE Plus(today, 0 - DaySeconds)
             ELSE IF StartsWithWeekday(p)
                  THEN WeekdayPhrase(WeekdayPart(p), reference_date)
                  ELSE FuzzyParse(p, reference_date, clock)

(***************************************************************************)
(* parse_event_time                                                        *)
(***************************************************************************)
\* re.search of the range pattern: a range phrase matches on its two tokens;
\* an ISO string "YYYY-MM-DD..." matches on "YY-MM" (the leftmost place two
\* numbers of at most two digits are joined by a hyphen), leaving the first
\* two digits of the year as the date part
MonthOfDay(d) == IF d < 4 THEN 2 ELSE 3

RangeMatch(p) ==
    IF p.k = "range"
    THEN [found |-> TRUE, pre |-> p.pre, t1 |-> p.t1, t2 |-> p.t2]
    ELSE IF p.k = "iso"
         THEN [found |-> TRUE,
               pre |-> [k |-> "bare", n |-> 2024 \div 100],
               t1 |-> [h |-> 2024 % 100, m |-> -1, ap |-> ""],
               t2 |-> [h |-> MonthOfDay(p.d), m |-> -1, ap |-> ""]]
         ELSE [found |-> FALSE]

\* a range parser without the overnight policy
OvernightEndSameDay(start_dt, end_dt) == end_dt

\* lines 208-210: an end before the start is taken to be on the next day
OvernightEnd(start_dt, end_dt) ==
    IF Lt(end_dt, start_dt) THEN Plus(end_dt, DaySeconds) ELSE end_dt

\* lines 216-222: the whole text as a single instant
SingleTime(p, default_duration_minutes, clock) ==
    LET start_dt == parse_natural_language_datetime(p, clock, clock)
    IN  IF start_dt # NoneV
        THEN [start |-> start_dt,
              end |-> Plus(start_dt, default_duration_minutes * 60),
              path |-> "single"]
        ELSE [start |-> NoneV, end |-> NoneV, path |-> "none"]

parse_event_time(p, default_duration_minutes, clock) ==
    LET rm == RangeMatch(p)
    IN  IF rm.found
        THEN LET date_part == IF rm.pre.k = "empty"
                              THEN [k |-> "word", w |-> "today"] ELSE rm.pre
                 date_dt == parse_natural_language_datetime(date_part, clock, clock)
             IN  IF date_dt = NoneV
                 THEN [start |-> NoneV, end |-> NoneV, path |-> "nodate"]
                 ELSE IF TimeTokenOk(rm.t1) /\ TimeTokenOk(rm.t2)
                      THEN LET start_dt == Replace(date_dt, TimeTokenHour(rm.t1),
                                                   TimeTokenMinute(rm.t1), 0)
                               end_dt == Replace(date_dt, TimeTokenHour(rm.t2),
                                                 TimeTokenMinute(rm.t2), 0)
                           IN  [start |-> start_dt,
                                end |-> OvernightEnd(start_dt, end_dt),
                                path |-> "range"]
                      ELSE SingleTime(p, default_duration_minutes, clock)
        ELSE SingleTime(p, default_duration_minutes, clock)

(***************************************************************************)
(* detect_all_day_event                                                    *)
(***************************************************************************)
\* duration_hours % 24 < 0.1  <=>  seconds % 86400 < 360 (the float quotient
\* is exact for the spans of the model, all below 72 hours)
detect_all_day_event(start_dt, end_dt) ==
    LET start_is_midnight == HourOf(start_dt) = 0 /\ MinuteOf(start_dt) = 0
        duration == Diff(end_dt, start_dt)
        is_multiple_of_day == (duration % DaySeconds) * 10 < HourSeconds
    IN  start_is_midnight /\ is_multiple_of_day


(***************************************************************************)
(* Credential provider (auth/oauth.py get_credentials)                     *)
(***************************************************************************)
\* store: the token file ("none" | "valid" | "expired"); refresh: what
\* credentials.refresh does if called ("ok" | "RefreshError" | "TransportError")
get_credentials(store, refresh) ==
    IF store = "none" THEN [out |-> "None", store |-> "none", exc |-> FALSE]
    ELSE IF store = "expired"
         THEN IF refresh = "ok"
              THEN [out |-> "creds", store |-> "valid", exc |-> FALSE]
              ELSE IF refresh = "RefreshError"
                   THEN [out |-> "None", store |-> "none", exc |-> FALSE]
                   ELSE [out |-> "raise", store |-> "expired", exc |-> TRUE]
         ELSE [out |-> "creds", store |-> "valid", exc |-> FALSE]

\* a credential check that lets every caller through
NotAuthenticatedSkipped(gc) == FALSE

\* "if not credentials": the check every credential-consuming function makes
NotAuthenticated(gc) == gc.out = "None"

(***************************************************************************)
(* get_user_timezone / get_user_email                                      *)
(***************************************************************************)
\* a lookup that asks the backend before looking at the credentials
get_user_timezone_unchecked(store, be) ==
    LET gc == get_credentials(store, be.refresh)
    IN  [exc |-> gc.exc, store |-> gc.store,
         val |-> IF be.settings \in {"fail", "none"} THEN "UTC" ELSE be.settings,
         calls |-> <<[api |-> "settings.list"]>>]

\* be.settings: "fail" | "none" (no timezone entry) | a timezone id;
\* be.calendarTz: "fail" | "none" | a timezone id
get_user_timezone(store, be) ==
    LET gc == get_credentials(store, be.refresh)
    IN  IF gc.exc THEN [exc |-> TRUE, val |-> "", calls |-> <<>>, store |-> gc.store]
        ELSE IF NotAuthenticated(gc)
        THEN [exc |-> FALSE, val |-> "UTC", calls |-> <<>>, store |-> gc.store]
        ELSE IF be.settings = "fail"
        THEN [exc |-> FALSE, val |-> "UTC", store |-> gc.store,
              calls |-> <<[api |-> "settings.list"]>>]
        ELSE IF be.settings # "none"
        THEN [exc |-> FALSE, val |-> be.settings, store |-> gc.store,
              calls |-> <<[api |-> "settings.list"]>>]
        ELSE [exc |-> FALSE, store |-> gc.store,
              val |-> IF be.calendarTz \in {"fail", "none"} THEN "UTC"
                      ELSE be.calendarTz,
              calls |-> <<[api |-> "settings.list"], [api |-> "calendars.get"]>>]

\* be.profile: "fail" | "" (no emailAddress) | an address
get_user_email(store, be) ==
    LET gc == get_credentials(store, be.refresh)
    IN  IF gc.exc THEN [exc |-> TRUE, val |-> "", calls |-> <<>>, store |-> gc.store]
        ELSE IF NotAuthenticated(gc)
        THEN [exc |-> FALSE, val |-> "", calls |-> <<>>, store |-> gc.store]
        ELSE [exc |-> FALSE, store |-> gc.store,
              val |-> IF be.profile = "fail" THEN "" ELSE be.profile,
              calls |-> <<[api |-> "users.getProfile"]>>]

(***************************************************************************)
(* get_free_busy_info                                                      *)
(***************************************************************************)
\* a str argument is parsed, a datetime argument is taken as it is
TimeArg(x, clock) ==
    IF x.k = "dt" THEN x ELSE parse_natural_language_datetime(x, clock, clock)

get_free_busy_info(start_time, end_time, calendar_ids, store, be, clock) ==
    LET gc == get_credentials(store, be.refresh)
        start_dt == TimeArg(start_time, clock)
        end_dt == TimeArg(end_time, clock)
        body == [api |-> "freebusy.query", timeMin |-> IsoFormat(start_dt),
                 timeMax |-> IsoFormat(end_dt), items |-> calendar_ids]
    IN  IF gc.exc
        THEN [exc |-> TRUE, val |-> NoneV, calls |-> <<>>, store |-> gc.store]
        ELSE IF NotAuthenticated(gc)
        THEN [exc |-> FALSE, val |-> [error |-> "Not authenticated"],
              calls |-> <<>>, store |-> gc.store]
        ELSE IF start_dt = NoneV
        THEN [exc |-> FALSE, val |-> [error |-> "Could not parse start time"],
              calls |-> <<>>, store |-> gc.store]
        ELSE IF end_dt = NoneV
        THEN [exc |-> FALSE, val |-> [error |-> "Could not parse end time"],
              calls |-> <<>>, store |-> gc.store]
        ELSE IF be.calendarList = "fail"
        THEN [exc |-> FALSE, store |-> gc.store,
              val |-> [error |-> "Failed to get free/busy information"],
              calls |-> <<[api |-> "calendarList.get"]>>]
        ELSE IF be.freebusy = "fail"
        THEN [exc |-> FALSE, store |-> gc.store,
              val |-> [error |-> "Failed to get free/busy information"],
              calls |-> <<[api |-> "calendarList.get"], body>>]
        ELSE [exc |-> FALSE, store |-> gc.store,
              val |-> [calendars |-> be.calendars,
                       start_time |-> IsoFormat(start_dt),
                       end_time |-> IsoFormat(end_dt),
                       user_email |-> be.calendarList],
              calls |-> <<[api |-> "calendarList.get"], body>>]


(***************************************************************************)
(* suggest_meeting_times                                                   *)
(***************************************************************************)
\* dateutil parser.parse on a busy bound of the free/busy response
BusyStrOk(str) == str.k = "iso"

RECURSIVE Flatten(_)
\* lines 645-650: the busy entries of every calendar, in response order
Flatten(cals) ==
    IF cals = <<>> THEN <<>> ELSE Head(cals) \o Flatten(Tail(cals))

ParseBusy(entries) ==
    [i \in 1..Len(entries) |->
        [s |-> FromIso(entries[i].start), e |-> FromIso(entries[i].end)]]

RECURSIVE InsertByStart(_, _)
InsertByStart(sorted, b) ==
    IF sorted = <<>> THEN <<b>>
    ELSE IF Lt(b.s, Head(sorted).s) THEN <<b>> \o sorted
    ELSE <<Head(sorted)>> \o InsertByStart(Tail(sorted), b)

RECURSIVE SortByStart(_)
\* line 653: list.sort(key=start) is stable
SortByStart(bs) ==
    IF bs = <<>> THEN <<>>
    ELSE InsertByStart(SortByStart(SubSeq(bs, 1, Len(bs) - 1)), bs[Len(bs)])

\* sorting compares starts: TypeError when naive and aware starts are mixed
SortRaises(bs) ==
    \E i, j \in 1..Len(bs) : ~Comparable(bs[i].s, bs[j].s)

RECURSIVE CheckSlotStartInside(_, _, _, _)
\* an availability test that only looks at where the slot starts
CheckSlotStartInside(slot_start, slot_end, busy_periods, i) ==
    IF i > Len(busy_periods) THEN "free"
    ELSE IF ~Comparable(slot_start, busy_periods[i].e) THEN "raise"
    ELSE IF Lt(slot_start, busy_periods[i].e) /\ Le(busy_periods[i].s, slot_start) THEN "busy"
    ELSE CheckSlotStartInside(slot_start, slot_end, busy_periods, i + 1)

RECURSIVE CheckSlot(_, _, _, _)
\* lines 685-690: "free", "busy" or "raise" (a naive/aware comparison)
CheckSlot(slot_start, slot_end, busy_periods, i) ==
    IF i > Len(busy_periods) THEN "free"
    ELSE IF ~Comparable(slot_start, busy_periods[i].e) THEN "raise"
    ELSE IF ~Lt(slot_start, busy_periods[i].e)
         THEN CheckSlot(slot_start, slot_end, busy_periods, i + 1)
    ELSE IF ~Comparable(slot_end, busy_periods[i].s) THEN "raise"
    ELSE IF Lt(busy_periods[i].s, slot_end) THEN "busy"
    ELSE CheckSlot(slot_start, slot_end, busy_periods, i + 1)

Hour12(dt) == IF HourOf(dt) % 12 = 0 THEN 12 ELSE HourOf(dt) % 12

AmPm(dt) == IF HourOf(dt) < 12 THEN "AM" ELSE "PM"

\* lines 694-701: one suggested time
SlotRecord(slot_start, slot_end) ==
    [start |-> IsoFormat(slot_start),
     end |-> IsoFormat(slot_end),
     formatted |->
        [date |-> <<Weekday(slot_start), DayOf(slot_start)>>,
         time |-> <<Hour12(slot_start), MinuteOf(slot_start), AmPm(slot_start),
                    Hour12(slot_end), MinuteOf(slot_end), AmPm(slot_end)>>]]

\* a scan that advances by a whole hour
NextSlotHourly(slot_start) == Plus(slot_start, HourSeconds)

\* line 704
NextSlot(slot_start) == Plus(slot_start, SlotStepMinutes * 60)

\* a list that grows at its head
CollectFront(suggested_times, slot) == <<slot>> \o suggested_times

\* line 694: suggested_times.append
Collect(suggested_times, slot) == Append(suggested_times, slot)

RECURSIVE SlotLoop(_, _, _, _, _)
\* lines 680-704: the 30-minute scan of one day
SlotLoop(slot_start, day_end, duration_minutes, busy_periods, acc) ==
    IF ~Lt(slot_start, day_end) THEN [exc |-> FALSE, slots |-> acc]
    ELSE LET slot_end == Plus(slot_start, duration_minutes * 60)
             chk == CheckSlot(slot_start, slot_end, busy_periods, 1)
         IN  IF chk = "raise" THEN [exc |-> TRUE, slots |-> acc]
             ELSE SlotLoop(NextSlot(slot_start), day_end,
                           duration_minutes, busy_periods,
                           IF chk = "free"
                           THEN Collect(acc, SlotRecord(slot_start, slot_end))
                           ELSE acc)

\* a weekend test that lets Saturdays through
IsWeekendSundayOnly(current_date) == Weekday(current_date) >= 6

\* line 664: weekday() >= 5
IsWeekend(current_date) == Weekday(current_date) >= 5

NextDay(current_date) == Replace(Plus(current_date, DaySeconds), 0, 0, 0)

RECURSIVE DayLoop(_, _, _, _, _, _, _)
\* lines 662-708: the scan of the days of the range
DayLoop(current_date, end_dt, duration_minutes, working_hours, busy_periods, clock, acc) ==
    IF ~Comparable(current_date, end_dt) THEN [exc |-> TRUE, slots |-> acc]
    ELSE IF ~Le(current_date, end_dt) THEN [exc |-> FALSE, slots |-> acc]
    ELSE IF IsWeekend(current_date)
    THEN DayLoop(NextDay(current_date), end_dt, duration_minutes, working_hours,
                 busy_periods, clock, acc)
    ELSE IF ~ReplaceOk(working_hours[1], 0, 0) \/ ~ReplaceOk(working_hours[2], 0, 0)
    THEN [exc |-> TRUE, slots |-> acc]
    ELSE LET day_start == Replace(current_date, working_hours[1], 0, 0)
             day_end == Replace(current_date, working_hours[2], 0, 0)
         IN  IF ~Comparable(day_end, clock) THEN [exc |-> TRUE, slots |-> acc]
             ELSE IF Lt(day_end, clock)
             THEN DayLoop(NextDay(current_date), end_dt, duration_minutes,
                          working_hours, busy_periods, clock, acc)
             ELSE LET day == SlotLoop(day_start, day_end, duration_minutes,
                                      busy_periods, acc)
                  IN  IF day.exc THEN day
                      ELSE DayLoop(NextDay(current_date), end_dt,
                                   duration_minutes, working_hours,
                                   busy_periods, clock, day.slots)

\* a return without the cap
TruncateNone(suggested_times) == suggested_times

\* line 711: suggested_times[:10]
Truncate(suggested_times) ==
    SubSeq(suggested_times, 1,
           IF Len(suggested_times) < SlotCap THEN Len(suggested_times) ELSE SlotCap)

\* lines 616, 623, 630, 641, 715: the one-element error list
Failed(msg, cs, st) == [exc |-> FALSE, val |-> <<[error |-> msg]>>, calls |-> cs, store |-> st]

suggest_meeting_times(start_date, end_date, duration_minutes, working_hours, calendar_ids, store, be, clock) ==
    LET gc == get_credentials(store, be.refresh)
        start_p == TimeArg(start_date, clock)
        end_p == TimeArg(end_date, clock)
        start_dt == Replace(start_p, 0, 0, 0)
        end_dt == Replace(end_p, 23, 59, 59)
        fb == get_free_busy_info(start_dt, end_dt, calendar_ids, gc.store, be, clock)
        entries == Flatten(fb.val.calendars)
        parsed == ParseBusy(entries)
        busy_periods == SortByStart(parsed)
        tz == get_user_timezone(fb.store, be)
        scan == DayLoop(start_dt, end_dt, duration_minutes, working_hours,
                        busy_periods, clock, <<>>)
    IN  IF gc.exc
        THEN [exc |-> TRUE, val |-> <<>>, calls |-> <<>>, store |-> gc.store]
        ELSE IF NotAuthenticated(gc) THEN Failed("Not authenticated", <<>>, gc.store)
        ELSE IF start_p = NoneV THEN Failed("Could not parse start date", <<>>, gc.store)
        ELSE IF end_p = NoneV THEN Failed("Could not parse end date", <<>>, gc.store)
        ELSE IF fb.exc THEN Failed("Failed to suggest meeting times", fb.calls, fb.store)
        ELSE IF "error" \in DOMAIN fb.val THEN Failed(fb.val.error, fb.calls, fb.store)
        ELSE IF \E i \in 1..Len(entries) :
                    ~BusyStrOk(entries[i].start) \/ ~BusyStrOk(entries[i].end)
        THEN Failed("Failed to suggest meeting times", fb.calls, fb.store)
        ELSE IF SortRaises(parsed)
        THEN Failed("Failed to suggest meeting times", fb.calls, fb.store)
        ELSE IF tz.exc \/ scan.exc
        THEN Failed("Failed to suggest meeting times", fb.calls \o tz.calls, tz.store)
        ELSE [exc |-> FALSE, val |-> Truncate(scan.slots),
              calls |-> fb.calls \o tz.calls, store |-> tz.store]


(***************************************************************************)
(* format_datetime_for_api                                                 *)
(***************************************************************************)
\* ZoneInfo(timezone) succeeds for the identifiers of the tz database
TzValid(timezone) == timezone \in {"UTC", "Europe/Paris"}

\* UTC offset, in minutes, of a zone in March 2024
TzOffset(timezone) == IF timezone = "Europe/Paris" THEN 60 ELSE 0

\* a formatter that stamps every naive instant as UTC
format_datetime_for_api_utc(dt, timezone, all_day) ==
    IF all_day
    THEN [date |-> DayOf(dt), timeZone |-> timezone]
    ELSE [dateTime |-> IsoFormat(IF dt.aware THEN dt ELSE DT(dt.t, TRUE, 0)),
          timeZone |-> timezone]

\* lines 273-294
format_datetime_for_api(dt, timezone, all_day) ==
    IF all_day
    THEN [date |-> DayOf(dt), timeZone |-> timezone]
    ELSE [dateTime |-> IsoFormat(IF dt.aware THEN dt
                                 ELSE IF TzValid(timezone)
                                      THEN DT(dt.t, TRUE, TzOffset(timezone))
                                      ELSE DT(dt.t, TRUE, 0)),
          timeZone |-> timezone]

(***************************************************************************)
(* create_calendar_event_object                                            *)
(***************************************************************************)
\* "-" in start_time: ISO strings and range phrases are written with a hyphen
HasHyphen(p) == p.k \in {"iso", "range"}

\* truthiness of an optional phrase (None and "" are falsy)
Given(p) == p.k \notin {"None", "empty"}

\* truthiness of an optional plain string ("" stands for None as well)
GivenStr(x) == x # ""

\* an attendee loop that appends every supplied address
OtherAttendeesUnfiltered(attendees, user_email) ==
    [i \in 1..Len(attendees) |-> [email |-> attendees[i]]]

RECURSIVE OtherAttendees(_, _)
\* lines 476-480
OtherAttendees(attendees, user_email) ==
    IF attendees = <<>> THEN <<>>
    ELSE (IF Head(attendees) # user_email
          THEN <<[email |-> Head(attendees)]>> ELSE <<>>)
         \o OtherAttendees(Tail(attendees), user_email)

\* lines 466-480
EventAttendees(attendees, user_email) ==
    (IF user_email # "" THEN <<[email |-> user_email]>> ELSE <<>>)
    \o OtherAttendees(attendees, user_email)

\* lines 418-431
EventTimes(start_time, end_time, clock) ==
    IF HasHyphen(start_time) /\ ~Given(end_time)
    THEN parse_event_time(start_time, DefaultDurationMinutes, clock)
    ELSE LET start_dt == parse_natural_language_datetime(start_time, clock, clock)
         IN  [start |-> start_dt,
              end |-> IF Given(end_time)
                      THEN parse_natural_language_datetime(end_time, clock, clock)
                      ELSE IF start_dt # NoneV THEN Plus(start_dt, HourSeconds)
                           ELSE NoneV]

With(cond, base, extra) == IF cond THEN base @@ extra ELSE base

create_calendar_event_object(summary, start_time, end_time, description, location, attendees, color_id, store, be, clock) ==
    LET tz == get_user_timezone(store, be)
        tm == EventTimes(start_time, end_time, clock)
        start_dt == tm.start
        end_dt == tm.end
        all_day == detect_all_day_event(start_dt, end_dt)
        em == get_user_email(tz.store, be)
        event_attendees == EventAttendees(attendees, em.val)
        body0 == [summary |-> summary,
                  start |-> format_datetime_for_api(start_dt, tz.val, all_day),
                  end |-> format_datetime_for_api(end_dt, tz.val, all_day),
                  _parsed |-> [start_dt |-> IsoFormat(start_dt),
                               end_dt |-> IsoFormat(end_dt),
                               timezone |-> tz.val,
                               all_day |-> all_day]]
        body1 == With(GivenStr(description), body0, [description |-> description])
        body2 == With(GivenStr(location), body1, [location |-> location])
        body3 == With(event_attendees # <<>>, body2, [attendees |-> event_attendees])
        body4 == With(GivenStr(color_id), body3, [colorId |-> color_id])
    IN  IF tz.exc
        THEN [exc |-> TRUE, val |-> NoneV, calls |-> <<>>, store |-> tz.store]
        ELSE IF start_dt = NoneV
        THEN [exc |-> FALSE, calls |-> tz.calls, store |-> tz.store,
              val |-> [error |-> "Could not parse start time",
                       parsed_start |-> NoneV, parsed_end |-> NoneV]]
        ELSE IF end_dt = NoneV
        THEN [exc |-> FALSE, calls |-> tz.calls, store |-> tz.store,
              val |-> [error |-> "Could not parse end time",
                       parsed_start |-> IsoFormat(start_dt), parsed_end |-> NoneV]]
        ELSE IF ~Comparable(end_dt, start_dt)
        THEN [exc |-> TRUE, val |-> NoneV, calls |-> tz.calls, store |-> tz.store]
        ELSE IF em.exc
        THEN [exc |-> TRUE, val |-> NoneV, calls |-> tz.calls, store |-> em.store]
        ELSE [exc |-> FALSE, val |-> body4, calls |-> tz.calls \o em.calls,
              store |-> em.store]


(***************************************************************************)
(* Inputs                                                                  *)
(***************************************************************************)
Tok(h, m, ap) == [h |-> h, m |-> m, ap |-> ap]

Iso(d, h, m, s) == [k |-> "iso", d |-> d, s |-> h * HourSeconds + m * 60 + s, aware |-> FALSE, off |-> 0, z |-> FALSE]

IsoZ(d, h, m, s) == [k |-> "iso", d |-> d, s |-> h * HourSeconds + m * 60 + s, aware |-> TRUE, off |-> 0, z |-> TRUE]

IsoOff(d, h, m, s, off) == [k |-> "iso", d |-> d, s |-> h * HourSeconds + m * 60 + s, aware |-> TRUE, off |-> off, z |-> FALSE]

Empty == [k |-> "empty"]

Junk == [k |-> "junk"]

Word(w) == [k |-> "word", w |-> w]

Fuzzy(dt, year_token, word_year) == [k |-> "fuzzy", dt |-> dt, year_token |-> year_token, word_year |-> word_year]

\* 2023-12-25 00:00, a date of the year before the clock's
Xmas2023 == Naive(At(-63, 0, 0, 0))

\* "dec 25 2023", "12/25/23", "in the year 2023 on dec 25", "new year do
\* 12/25/23", "dec 25 2024"
YearPhrases == {Fuzzy(Xmas2023, TRUE, FALSE), Fuzzy(Xmas2023, FALSE, FALSE), Fuzzy(Xmas2023, TRUE, TRUE), Fuzzy(Xmas2023, FALSE, TRUE), Fuzzy(Naive(At(303, 0, 0, 0)), TRUE, FALSE)}

\* the clock readings of the model: Monday 2024-03-04 (day 7) and after
Mon == 7

AtTokens == {NoTok, Tok(10, -1, "am"), Tok(10, 30, "pm"), Tok(12, -1, "am"), Tok(12, 5, "pm"), Tok(13, -1, "pm"), Tok(10, -1, ""), Tok(17, 45, ""), Tok(9, 75, "am"), Tok(25, 0, "")}

RangeTokens == {Tok(3, -1, ""), Tok(4, -1, "pm"), Tok(9, -1, "pm"), Tok(1, -1, "am"), Tok(11, 30, "pm"), Tok(9, -1, "am"), Tok(25, 0, ""), Tok(0, -1, "")}

WeekdayPhrases == [k : {"weekday"}, rel : {"next", "this"}, wd : 0..6, at : AtTokens]

FuzzyResults == {NoneV, Naive(At(Mon + 1, 23, 30, 0))}

RangePres == {Empty, Word("tomorrow"), Junk, [k |-> "weekday", rel |-> "next", wd |-> 2, at |-> Tok(11, 30, "pm")]}

RangePhrases == [k : {"range"}, pre : RangePres, t1 : RangeTokens, t2 : RangeTokens, fz : FuzzyResults]

OtherPhrases == {Empty, Junk, Word("today"), Word("tomorrow"), Word("yesterday"), Iso(Mon, 0, 0, 0), Iso(Mon, 15, 0, 0), Iso(Mon, 0, 0, 30), IsoZ(Mon, 15, 0, 0), IsoOff(Mon, 0, 0, 0, 60), Fuzzy(Naive(At(Mon + 3, 23, 30, 0)), FALSE, FALSE)}

EndPhrases == {NoneV, Empty, Junk, Word("tomorrow"), Iso(Mon, 16, 0, 0), Iso(Mon + 2, 0, 0, 0), IsoZ(Mon, 16, 0, 0), Iso(Mon, 9, 0, 0), [k |-> "weekday", rel |-> "this", wd |-> 4, at |-> Tok(10, -1, "am")]}

DefaultBackend == [refresh |-> "ok", calendarList |-> "me@x.com", freebusy |-> "ok", calendars |-> <<>>, settings |-> "Europe/Paris", calendarTz |-> "UTC", profile |-> "me@x.com"]

DefaultArgs == [family |-> "event", start |-> Word("today"), end |-> NoneV, reference |-> NoneV, duration_minutes |-> 60, working_hours |-> <<9, 17>>, calendar_ids |-> <<"primary">>, summary |-> "Sync", description |-> "", location |-> "", color_id |-> "", attendees |-> <<>>, start_dt |-> Naive(0), end_dt |-> Naive(0), timezone |-> "UTC", all_day |-> FALSE]


(***************************************************************************)
(* Initial states: one pending call with its inputs and its environment    *)
(***************************************************************************)
Clock(d) == Naive(At(d, 10, 20, 30))

CredCases == {<<"none", "ok">>, <<"valid", "ok">>, <<"expired", "ok">>, <<"expired", "RefreshError">>, <<"expired", "TransportError">>}

TzCases == {<<"fail", "UTC">>, <<"Europe/Paris", "UTC">>, <<"Mars/Phobos", "UTC">>, <<"none", "fail">>, <<"none", "none">>, <<"none", "Europe/Paris">>}

AttendeeCases == {<<>>, <<"me@x.com">>, <<"a@x.com", "me@x.com", "b@x.com">>, <<"a@x.com", "a@x.com">>, <<"Me@x.com">>}

\* the busy entries a free/busy response is assembled from (9-10, 10:15-10:45
\* and 13-17 on the Monday, naive; 9-10 with a Z suffix; an unparseable one)
BusyEntries == {[start |-> Iso(Mon, 9, 0, 0), end |-> Iso(Mon, 10, 0, 0)], [start |-> Iso(Mon, 10, 15, 0), end |-> Iso(Mon, 10, 45, 0)], [start |-> Iso(Mon, 13, 0, 0), end |-> Iso(Mon, 17, 0, 0)], [start |-> IsoZ(Mon, 9, 0, 0), end |-> IsoZ(Mon, 10, 0, 0)], [start |-> Junk, end |-> Iso(Mon, 10, 0, 0)]}

BusyLists == UNION {[1..n -> BusyEntries] : n \in 0..MaxBusy}

\* one calendar carrying all the entries, or one calendar per entry
CalendarCases == {<<bl>> : bl \in BusyLists} \cup {[i \in 1..Len(bl) |-> <<bl[i]>>] : bl \in BusyLists}

SlotClocks == {Naive(At(Mon, 8, 0, 0)), Naive(At(Mon, 12, 0, 0)), Naive(At(Mon + 1, 18, 0, 0))}

SlotStarts == {Mon, Mon + 4, Mon + 5}

\* the tools of auth/oauth.py that run concurrently on the token store
AuthProcs == {"logout", "get_credentials", "check_auth_status"}

\* no auth tool is running, the session is the one last authorized
AuthIdle ==
    /\ pc = [p \in AuthProcs |-> "idle"]
    /\ held = [p \in AuthProcs |-> "none"]
    /\ session = "active"
    /\ _state = ""

InitCommon ==
    /\ AuthIdle
    /\ op = "idle"
    /\ ret = NoneV
    /\ raised = FALSE
    /\ calls = <<>>
    /\ drafts = {}
    /\ sent = {}
    /\ confirmed = {}

\* "next/this <weekday>" phrases on every day of the week
InitWeekday ==
    /\ \E d \in 0..6 : now = Clock(Mon + d)
    /\ creds = "valid"
    /\ backend = DefaultBackend
    /\ \E p \in WeekdayPhrases, r \in {NoneV, Naive(At(Mon + 9, 14, 30, 15))} :
          args = [DefaultArgs EXCEPT !.start = p, !.reference = r]

\* range phrases
InitRange ==
    /\ now = Clock(Mon)
    /\ creds = "valid"
    /\ backend = DefaultBackend
    /\ \E p \in RangePhrases : args = [DefaultArgs EXCEPT !.start = p]

\* start and end phrases of every shape
InitPhrases ==
    /\ now \in {Clock(Mon), Clock(Mon + 3)}
    /\ creds \in {"valid", "none"}
    /\ backend = DefaultBackend
    /\ \E p \in OtherPhrases \cup {[k |-> "weekday", rel |-> "next", wd |-> 0, at |-> Tok(10, -1, "am")], [k |-> "range", pre |-> Empty, t1 |-> Tok(3, -1, ""), t2 |-> Tok(4, -1, "pm"), fz |-> NoneV]}, e \in EndPhrases, r \in {NoneV, Naive(At(Mon + 9, 14, 30, 15))} :
          args = [DefaultArgs EXCEPT !.start = p, !.end = e, !.reference = r]

\* phrases that name, or make the parser infer, a year
InitYears ==
    /\ now = Clock(Mon)
    /\ creds = "valid"
    /\ backend = DefaultBackend
    /\ \E p \in YearPhrases, r \in {NoneV, Naive(At(Mon + 9, 14, 30, 15))} :
          args = [DefaultArgs EXCEPT !.start = p, !.reference = r]

\* times of day without a date ("4pm", "17:45", "25:00"), read on two days
InitTimeOnly ==
    /\ now \in {Clock(Mon), Clock(Mon + 3)}
    /\ creds = "valid"
    /\ backend = DefaultBackend
    /\ \E tok \in {Tok(4, -1, "pm"), Tok(17, 45, ""), Tok(25, 0, "")}, r \in {NoneV, Naive(At(Mon + 9, 14, 30, 15))} :
          args = [DefaultArgs EXCEPT !.start = [k |-> "time", at |-> tok], !.reference = r]

\* credential store, backend answers and attendee lists
InitEnv ==
    /\ now = Clock(Mon + 3)
    /\ \E c \in CredCases, t \in TzCases, pr \in {"fail", "", "me@x.com"} :
          /\ creds = c[1]
          /\ backend = [DefaultBackend EXCEPT !.refresh = c[2], !.settings = t[1], !.calendarTz = t[2], !.profile = pr]
    /\ \E p \in {Word("tomorrow"), Iso(Mon, 15, 0, 0), Junk}, a \in AttendeeCases, x \in {"", "x"} :
          args = [DefaultArgs EXCEPT !.start = p, !.attendees = a, !.description = x, !.location = x, !.color_id = x]

\* date ranges, durations, working hours and free/busy answers
InitSlots ==
    /\ now \in SlotClocks
    /\ creds = "valid"
    /\ \E cal \in CalendarCases : backend = [DefaultBackend EXCEPT !.calendars = cal]
    /\ \E d \in SlotStarts, n \in 0..(MaxDays - 1), dur \in {30, 45, 90}, wh \in {<<9, 17>>, <<9, 11>>, <<9, 24>>} :
          args = [DefaultArgs EXCEPT !.family = "slots", !.start = Iso(d, 0, 0, 0), !.end = Iso(d + n, 0, 0, 0), !.duration_minutes = dur, !.working_hours = wh]

\* date ranges given with offsets, failing backends, absent credentials
InitSlotsEnv ==
    /\ now = Naive(At(Mon, 8, 0, 0))
    /\ \E c \in CredCases, cl \in {"fail", "me@x.com"}, fb \in {"fail", "ok"}, cal \in {<<>>, << <<[start |-> Iso(Mon, 9, 0, 0), end |-> Iso(Mon, 10, 0, 0)]>> >>, << <<[start |-> IsoZ(Mon, 9, 0, 0), end |-> IsoZ(Mon, 10, 0, 0)]>> >>} :
          /\ creds = c[1]
          /\ backend = [DefaultBackend EXCEPT !.refresh = c[2], !.calendarList = cl, !.freebusy = fb, !.calendars = cal]
    /\ \E s \in {Iso(Mon, 0, 0, 0), IsoZ(Mon, 0, 0, 0), IsoZ(Mon + 5, 0, 0, 0)}, e \in {Iso(Mon + 1, 0, 0, 0), IsoZ(Mon + 1, 0, 0, 0), IsoZ(Mon + 6, 0, 0, 0)} :
          args = [DefaultArgs EXCEPT !.family = "slots", !.start = s, !.end = e, !.duration_minutes = 30]

AllDayStarts == {Naive(At(Mon, 0, 0, 0)), Naive(At(Mon, 0, 0, 30)), Naive(At(Mon, 0, 1, 0)), Naive(At(Mon, 8, 0, 0)), DT(At(Mon, 0, 0, 0), TRUE, 60)}

AllDaySpans == {0, 359, 360, 7200, 23 * HourSeconds, DaySeconds - 300, DaySeconds - 1, DaySeconds, DaySeconds + 359, DaySeconds + 360, 2 * DaySeconds, 0 - DaySeconds, 0 - 60}

\* pairs of instants for detect_all_day_event
InitAllDay ==
    /\ now = Clock(Mon)
    /\ creds = "valid"
    /\ backend = DefaultBackend
    /\ \E s \in AllDayStarts, n \in AllDaySpans, aw \in BOOLEAN :
          args = [DefaultArgs EXCEPT !.family = "allday", !.start_dt = s, !.end_dt = IF aw THEN DT(s.t + n, TRUE, 60) ELSE Naive(s.t + n)]

\* instants, timezone identifiers and the all-day flag for
\* format_datetime_for_api
InitFormat ==
    /\ now = Clock(Mon)
    /\ creds = "valid"
    /\ backend = DefaultBackend
    /\ \E s \in AllDayStarts \cup {Naive(At(Mon + 1, 23, 59, 59)), DT(At(Mon, 15, 0, 0), TRUE, 0)}, tz \in {"UTC", "Europe/Paris", "Mars/Phobos"}, ad \in BOOLEAN :
          args = [DefaultArgs EXCEPT !.family = "format", !.start_dt = s, !.timezone = tz, !.all_day = ad]

Init ==
    /\ InitCommon
    /\ \/ InitWeekday
       \/ InitRange
       \/ InitPhrases
       \/ InitYears
       \/ InitTimeOnly
       \/ InitEnv
       \/ InitSlots
       \/ InitSlotsEnv
       \/ InitAllDay
       \/ InitFormat

(***************************************************************************)
(* Actions: the entry points of calendar/processor.py                      *)
(***************************************************************************)
Done(name, r) ==
    /\ op' = name
    /\ ret' = r.val
    /\ raised' = r.exc
    /\ calls' = r.calls
    /\ creds' = r.store
    /\ UNCHANGED <<now, args, backend, drafts, sent, confirmed, pc, held, session, _state>>

Pure(v) == [val |-> v, exc |-> FALSE, calls |-> <<>>, store |-> creds]

\* ret holds every returned value as a record: a bool and a list are stored
\* under a tag, the other values (datetime, dict, pair, None) are records
BoolV(b) == [k |-> "bool", v |-> b]

ListV(items) == [k |-> "list", items |-> items]

StrV(v) == [k |-> "str", v |-> v]

ParseNaturalLanguageDatetime ==
    /\ op = "idle"
    /\ Done("parse_natural_language_datetime", Pure(parse_natural_language_datetime(args.start, IF args.reference = NoneV THEN now ELSE args.reference, now)))

ParseEventTime ==
    /\ op = "idle"
    /\ Done("parse_event_time", Pure(parse_event_time(args.start, DefaultDurationMinutes, now)))

DetectAllDayEvent ==
    /\ op = "idle"
    /\ Done("detect_all_day_event", IF Comparable(args.end_dt, args.start_dt) THEN Pure(BoolV(detect_all_day_event(args.start_dt, args.end_dt))) ELSE [val |-> NoneV, exc |-> TRUE, calls |-> <<>>, store |-> creds])

CreateCalendarEventObject ==
    /\ op = "idle"
    /\ Done("create_calendar_event_object", create_calendar_event_object(args.summary, args.start, args.end, args.description, args.location, args.attendees, args.color_id, creds, backend, now))

GetFreeBusyInfo ==
    /\ op = "idle"
    /\ Done("get_free_busy_info", get_free_busy_info(args.start, args.end, args.calendar_ids, creds, backend, now))

SuggestMeetingTimes ==
    /\ op = "idle"
    /\ LET r == suggest_meeting_times(args.start, args.end, args.duration_minutes, args.working_hours, args.calendar_ids, creds, backend, now)
       IN  Done("suggest_meeting_times", [r EXCEPT !.val = ListV(r.val)])

FormatDatetimeForApi ==
    /\ op = "idle"
    /\ Done("format_datetime_for_api", Pure(format_datetime_for_api(args.start_dt, args.timezone, args.all_day)))

GetUserTimezone ==
    /\ op = "idle"
    /\ LET r == get_user_timezone(creds, backend)
       IN  Done("get_user_timezone", [r EXCEPT !.val = StrV(r.val)])

GetUserEmail ==
    /\ op = "idle"
    /\ LET r == get_user_email(creds, backend)
       IN  Done("get_user_email", [r EXCEPT !.val = StrV(r.val)])

Next ==
    \/ ParseNaturalLanguageDatetime
    \/ ParseEventTime
    \/ DetectAllDayEvent
    \/ CreateCalendarEventObject
    \/ GetFreeBusyInfo
    \/ SuggestMeetingTimes
    \/ GetUserTimezone
    \/ GetUserEmail
    \/ FormatDatetimeForApi

Spec == Init /\ [][Next]_vars


(***************************************************************************)
(* The reply tools of mcp/tools.py: send_email_reply, confirm_send_email   *)
(***************************************************************************)
\* drafts: the draft ids the mail backend holds; sent: the drafts it has
\* sent; confirmed: the draft ids confirm_send_email was invoked with.
\* be.messagesGet, be.draftsCreate, be.draftsSend: "ok" | "fail"
FreshDraft(ds, st) == Cardinality(ds \cup st) + 1

\* a reply tool that sends the draft it has just created
send_email_reply_and_send(email_id, store, be, ds, st) ==
    LET gc == get_credentials(store, be.refresh)
        id == FreshDraft(ds, st)
    IN  IF gc.exc \/ NotAuthenticated(gc) \/ be.messagesGet = "fail" \/ be.draftsCreate = "fail"
        THEN [exc |-> gc.exc, val |-> [error |-> "failed"], store |-> gc.store, drafts |-> ds, sent |-> st, calls |-> <<>>]
        ELSE [exc |-> FALSE, val |-> [success |-> TRUE, draft_id |-> id], store |-> gc.store, drafts |-> ds, sent |-> st \cup {id}, calls |-> <<[api |-> "messages.get"], [api |-> "drafts.create"], [api |-> "drafts.send", id |-> id]>>]

send_email_reply(email_id, store, be, ds, st) ==
    LET gc == get_credentials(store, be.refresh)
        id == FreshDraft(ds, st)
    IN  IF gc.exc
        THEN [exc |-> TRUE, val |-> NoneV, store |-> gc.store, drafts |-> ds, sent |-> st, calls |-> <<>>]
        ELSE IF NotAuthenticated(gc)
        THEN [exc |-> FALSE, val |-> [error |-> "Not authenticated"], store |-> gc.store, drafts |-> ds, sent |-> st, calls |-> <<>>]
        ELSE IF be.messagesGet = "fail"
        THEN [exc |-> FALSE, val |-> [success |-> FALSE, error |-> "Failed to create draft reply"], store |-> gc.store, drafts |-> ds, sent |-> st, calls |-> <<[api |-> "messages.get"]>>]
        ELSE IF be.draftsCreate = "fail"
        THEN [exc |-> FALSE, val |-> [success |-> FALSE, error |-> "Failed to create draft reply"], store |-> gc.store, drafts |-> ds, sent |-> st, calls |-> <<[api |-> "messages.get"], [api |-> "drafts.create"]>>]
        ELSE [exc |-> FALSE, val |-> [success |-> TRUE, draft_id |-> id, confirmation_required |-> TRUE], store |-> gc.store, drafts |-> ds \cup {id}, sent |-> st, calls |-> <<[api |-> "messages.get"], [api |-> "drafts.create"]>>]

confirm_send_email(draft_id, store, be, ds, st) ==
    LET gc == get_credentials(store, be.refresh)
    IN  IF gc.exc
        THEN [exc |-> TRUE, val |-> NoneV, store |-> gc.store, drafts |-> ds, sent |-> st, calls |-> <<>>]
        ELSE IF NotAuthenticated(gc)
        THEN [exc |-> FALSE, val |-> [error |-> "Not authenticated"], store |-> gc.store, drafts |-> ds, sent |-> st, calls |-> <<>>]
        ELSE IF be.draftsSend = "fail" \/ draft_id \notin ds
        THEN [exc |-> FALSE, val |-> [success |-> FALSE, error |-> "Failed to send email"], store |-> gc.store, drafts |-> ds, sent |-> st, calls |-> <<[api |-> "drafts.send", id |-> draft_id]>>]
        ELSE [exc |-> FALSE, val |-> [success |-> TRUE, email_id |-> draft_id], store |-> gc.store, drafts |-> ds \ {draft_id}, sent |-> st \cup {draft_id}, calls |-> <<[api |-> "drafts.send", id |-> draft_id]>>]

MailBackends == [refresh : {"ok", "RefreshError"}, messagesGet : {"ok", "fail"}, draftsCreate : {"ok", "fail"}, draftsSend : {"ok", "fail"}]

InitMail ==
    /\ AuthIdle
    /\ now = Clock(Mon)
    /\ creds \in {"none", "valid", "expired"}
    /\ op = "idle"
    /\ args = [email_id |-> 0]
    /\ backend \in MailBackends
    /\ ret = NoneV
    /\ raised = FALSE
    /\ calls = <<>>
    /\ drafts = {}
    /\ sent = {}
    /\ confirmed = {}

MailDone(name, a, be, r) ==
    /\ op' = name
    /\ args' = a
    /\ backend' = be
    /\ ret' = r.val
    /\ raised' = r.exc
    /\ calls' = r.calls
    /\ creds' = r.store
    /\ drafts' = r.drafts
    /\ sent' = r.sent
    /\ UNCHANGED <<now, pc, held, session, _state>>

SendEmailReply ==
    /\ FreshDraft(drafts, sent) <= MaxDrafts
    /\ \E email_id \in 1..2, be \in MailBackends :
          /\ MailDone("send_email_reply", [email_id |-> email_id], be, send_email_reply(email_id, creds, be, drafts, sent))
          /\ UNCHANGED confirmed

ConfirmSendEmail ==
    \E draft_id \in 1..MaxDrafts, be \in MailBackends :
        /\ MailDone("confirm_send_email", [draft_id |-> draft_id], be, confirm_send_email(draft_id, creds, be, drafts, sent))
        /\ confirmed' = confirmed \cup {draft_id}

NextMail ==
    \/ SendEmailReply
    \/ ConfirmSendEmail

SpecMail == InitMail /\ [][NextMail]_vars


(***************************************************************************)
(* The tools of auth/oauth.py on the token store, one step per access to   *)
(* the token file or to the authorization server.                          *)
(*   creds    the token file: "none" | "valid" | "expired"                 *)
(*   held[p]  the Credentials object tool p got from get_token             *)
(*   backend.grant  the authorization server's view of the refresh token   *)
(*   session  "loggedout" from the return of a successful logout until the *)
(*            next successful process_auth_code, "active" otherwise        *)
(***************************************************************************)
Readers == {"get_credentials", "check_auth_status"}

InitAuth ==
    /\ AuthIdle
    /\ now = Clock(Mon)
    /\ creds \in {"none", "valid", "expired"}
    /\ op = "idle"
    /\ args = NoneV
    /\ backend = [grant |-> "live"]
    /\ ret = NoneV
    /\ raised = FALSE
    /\ calls = <<>>
    /\ drafts = {}
    /\ sent = {}
    /\ confirmed = {}

\* what an auth step leaves alone
AuthFrame == UNCHANGED <<now, args, calls, drafts, sent, confirmed, _state>>

\* a step of tool p that returns v
Return(p, v) ==
    /\ pc' = [pc EXCEPT ![p] = "idle"]
    /\ ret' = v

\* a step of tool p that goes on to location l
Goto(p, l) ==
    /\ pc' = [pc EXCEPT ![p] = l]
    /\ ret' = ret

\* oauth.py 239-241, 256-258: logout reads the stored credentials
LogoutGetToken ==
    /\ pc["logout"] = "idle"
    /\ op' = "logout"
    /\ held' = [held EXCEPT !["logout"] = creds]
    /\ IF creds = "none"
       THEN Return("logout", StrV("No active session to log out from."))
       ELSE Goto("logout", "revoke")
    /\ raised' = FALSE
    /\ UNCHANGED <<creds, backend, session>>
    /\ AuthFrame

\* oauth.py 243-248, 254-256: the revoke request; its response is not looked
\* at, so a rejected request (the access token has expired) goes unnoticed
LogoutRevoke ==
    /\ pc["logout"] = "revoke"
    /\ op' = "logout"
    /\ \E outcome \in {"revoked", "rejected", "exception"} :
          /\ backend' = IF outcome = "revoked" THEN [backend EXCEPT !.grant = "revoked"] ELSE backend
          /\ IF outcome = "exception"
             THEN Return("logout", StrV("Error: Failed to revoke token"))
             ELSE Goto("logout", "clear")
    /\ raised' = FALSE
    /\ UNCHANGED <<creds, held, session>>
    /\ AuthFrame

\* oauth.py 250-253: clear_token, then the success message
LogoutClear ==
    /\ pc["logout"] = "clear"
    /\ op' = "logout"
    /\ creds' = "none"
    /\ session' = "loggedout"
    /\ Return("logout", StrV("Logged out successfully."))
    /\ raised' = FALSE
    /\ UNCHANGED <<backend, held>>
    /\ AuthFrame

\* what a reader returns for the credentials c it holds
ReaderResult(p, c) ==
    IF p = "get_credentials" THEN [k |-> "credentials", v |-> c]
    ELSE [authenticated |-> c # "none",
          status |-> IF c = "none" THEN "none" ELSE IF c = "refreshed" THEN "refreshed" ELSE "valid"]

\* oauth.py 408-414, 424 and 272-283, 306-310: get_token and the expiry test
ReadToken(p) ==
    /\ pc[p] = "idle"
    /\ op' = p
    /\ held' = [held EXCEPT ![p] = creds]
    /\ IF creds = "expired" THEN Goto(p, "refresh") ELSE Return(p, ReaderResult(p, creds))
    /\ raised' = FALSE
    /\ UNCHANGED <<creds, backend, session>>
    /\ AuthFrame

\* oauth.py 417, 419-422 and 287, 295-304: credentials.refresh on the
\* Credentials object read earlier; get_credentials catches RefreshError
\* only, check_auth_status every exception
Refresh(p) ==
    /\ pc[p] = "refresh"
    /\ op' = p
    /\ \E outcome \in (IF backend.grant = "live" THEN {"ok"} ELSE {}) \cup {"RefreshError", "TransportError"} :
          IF outcome = "ok"
          THEN /\ held' = [held EXCEPT ![p] = "valid"]
               /\ Goto(p, "store")
               /\ raised' = FALSE
          ELSE /\ held' = held
               /\ IF p = "check_auth_status"
                  THEN Return(p, [authenticated |-> FALSE, status |-> "expired"]) /\ raised' = FALSE
                  ELSE IF outcome = "RefreshError"
                  THEN Goto(p, "clear") /\ raised' = FALSE
                  ELSE Return(p, NoneV) /\ raised' = TRUE
    /\ UNCHANGED <<creds, backend, session>>
    /\ AuthFrame

\* oauth.py 418, 424 and 288-294: store_token writes the refreshed token
StoreToken(p) ==
    /\ pc[p] = "store"
    /\ op' = p
    /\ creds' = "valid"
    /\ Return(p, ReaderResult(p, IF p = "get_credentials" THEN "valid" ELSE "refreshed"))
    /\ raised' = FALSE
    /\ UNCHANGED <<backend, held, session>>
    /\ AuthFrame

\* oauth.py 421-422: get_credentials clears the token after a RefreshError
ClearToken ==
    /\ pc["get_credentials"] = "clear"
    /\ op' = "get_credentials"
    /\ creds' = "none"
    /\ Return("get_credentials", ReaderResult("get_credentials", "none"))
    /\ raised' = FALSE
    /\ UNCHANGED <<backend, held, session>>
    /\ AuthFrame

\* the state values an authorization URL is generated with, the values a
\* caller may hand to process_auth_code ("" for an empty or missing one)
States == {"s1", "s2"}

\* oauth.py 32-68: login generates a state and stores it (token_manager.py
\* 153-161); the state kept from an earlier login is overwritten
Login ==
    /\ op' = "login"
    /\ \E state \in States : _state' = state
    /\ ret' = StrV("authorization_url")
    /\ raised' = FALSE
    /\ UNCHANGED <<creds, backend, pc, held, session>>
    /\ UNCHANGED <<now, args, calls, drafts, sent, confirmed>>

\* a verification that accepts any non-empty state
verify_state_any(stored, state) == state # ""

\* token_manager.py 163-178 (_state is None until the first login; None and
\* "" are both false under "not")
verify_state(stored, state) == ~(stored = "" \/ state = "" \/ stored # state)

\* oauth.py 71-120: process_auth_code; after the state check the code is
\* exchanged and, on success, the new grant is stored
ProcessAuthCode ==
    /\ op' = "process_auth_code"
    /\ \E state \in States \cup {""}, ok \in BOOLEAN :
          /\ args' = [code |-> "code", state |-> state]
          /\ IF ~verify_state(_state, state)
             THEN /\ UNCHANGED <<creds, backend, session>>
                  /\ ret' = StrV("Error: Invalid state parameter. Authorization failed.")
             ELSE IF ok
             THEN /\ creds' = "valid"
                  /\ backend' = [backend EXCEPT !.grant = "live"]
                  /\ session' = "active"
                  /\ ret' = StrV("Authorization successful! You can now use the Gmail MCP server.")
             ELSE /\ UNCHANGED <<creds, backend, session>>
                  /\ ret' = StrV("Error: Failed to process authorization code")
    /\ raised' = FALSE
    /\ UNCHANGED <<pc, held, _state>>
    /\ UNCHANGED <<now, calls, drafts, sent, confirmed>>

\* the expiry of the stored access token passes (credentials.expired)
TokenExpires ==
    /\ creds = "valid"
    /\ creds' = "expired"
    /\ op' = "expire"
    /\ UNCHANGED <<backend, ret, raised, pc, held, session>>
    /\ AuthFrame

\* main.py 80-83: check_authentication builds a TokenManager and calls its
\* tokens_exist(), outside any try block; the class defines the methods
\* listed below (token_manager.py 30-178), and an attribute it does not
\* define raises AttributeError: nothing after line 83 runs
CheckAuthentication ==
    /\ \A p \in AuthProcs : pc[p] = "idle"
    /\ op' = "check_authentication"
    /\ IF "tokens_exist" \in {"__init__", "_get_encryption_key", "store_token", "get_token", "clear_token", "store_state", "verify_state"}
       THEN /\ raised' = FALSE
            /\ ret' = BoolV(creds # "none")
       ELSE /\ raised' = TRUE
            /\ ret' = NoneV
    /\ UNCHANGED <<creds, backend, pc, held, session>>
    /\ AuthFrame

NextAuth ==
    \/ CheckAuthentication
    \/ LogoutGetToken
    \/ LogoutRevoke
    \/ LogoutClear
    \/ \E p \in Readers : ReadToken(p)
    \/ \E p \in Readers : Refresh(p)
    \/ \E p \in Readers : StoreToken(p)
    \/ ClearToken
    \/ Login
    \/ ProcessAuthCode
    \/ TokenExpires

SpecAuth == InitAuth /\ [][NextAuth]_vars


(***************************************************************************)
(* Properties                                                              *)
(***************************************************************************)
Suggested == op = "suggest_meeting_times" /\ ~raised

\* the call returned a list of slots (possibly empty), not the error list
IsSlotList == Suggested /\ \A i \in 1..Len(ret.items) : "error" \notin DOMAIN ret.items[i]

BusyReported == Flatten(backend.calendars)

\* position of a datetime on the time line (wall clock when naive)
Instant(dt) == IF dt.aware THEN Utc(dt) ELSE dt.t

\* C1: no slot returned by suggest_meeting_times overlaps a busy interval the
\* free/busy backend reported for any of the calendars:
\* never slot.start < busy.end and slot.end > busy.start
C1_SlotNonOverlap ==
    IsSlotList =>
        \A i \in 1..Len(ret.items) : \A j \in 1..Len(BusyReported) :
            LET b == BusyReported[j]
            IN  /\ BusyStrOk(b.start) /\ BusyStrOk(b.end)
                /\ FromIso(b.start).aware = ret.items[i].start.aware
                /\ ~(/\ Instant(FromIso(ret.items[i].start)) < Instant(FromIso(b.end))
                     /\ Instant(FromIso(ret.items[i].end)) > Instant(FromIso(b.start)))

\* slots were returned for a Monday on which two busy intervals were reported
C1_Witness ==
    /\ IsSlotList
    /\ Len(BusyReported) >= 2
    /\ \E i \in 1..Len(ret.items) : ret.items[i].start.d = Mon
    /\ args.duration_minutes = 90

\* C2: send_email_reply only creates a draft and never sends; a message is
\* sent only by confirm_send_email, so every sent draft is one that
\* confirm_send_email was invoked with
C2_SendOnlyOnConfirm ==
    [][/\ (op' = "send_email_reply" => sent' = sent)
       /\ (sent' # sent => op' = "confirm_send_email" /\ sent' = sent \cup {args'.draft_id})
       /\ sent' \subseteq confirmed']_vars

\* a draft created by send_email_reply has been sent after its confirmation
C2_Witness ==
    /\ op = "confirm_send_email"
    /\ ret = [success |-> TRUE, email_id |-> args.draft_id]
    /\ args.draft_id \in sent
    /\ drafts # {}

EntryPoints == {"create_calendar_event_object", "suggest_meeting_times", "get_free_busy_info", "parse_event_time", "parse_natural_language_datetime"}

\* C3: every public entry point returns a value and never lets an exception
\* reach its caller, whatever the phrases, attendees and backend outcome
C3_NoExceptionEscapes == op \in EntryPoints => ~raised

C5_SlotCap == Suggested => Len(ret.items) <= 10

\* a free Monday with working hours 9-17 has 16 candidates; 10 are returned
C5_Witness ==
    /\ IsSlotList
    /\ Len(ret.items) = 10
    /\ args.working_hours = <<9, 17>>
    /\ args.duration_minutes = 30
    /\ BusyReported = <<>>
    /\ args.start = Iso(Mon, 0, 0, 0)
    /\ now = Naive(At(Mon, 8, 0, 0))

\* C6: no returned slot starts on a Saturday or a Sunday
C6_NoWeekendSlot ==
    IsSlotList => \A i \in 1..Len(ret.items) : ret.items[i].start.d % 7 \notin {5, 6}

\* a range that starts on a Saturday and reaches the Monday after yields slots
C6_Witness ==
    /\ IsSlotList
    /\ args.start.k = "iso"
    /\ args.start.d % 7 = 5
    /\ Len(ret.items) > 0

\* the days of the range that are scanned: not a weekend day, and working
\* hours not already over
ScannedDays ==
    {d \in DayOf(TimeArg(args.start, now))..DayOf(TimeArg(args.end, now)) :
        d % 7 < 5 /\ ~(At(d, args.working_hours[2], 0, 0) < now.t)}

CandidateStarts ==
    UNION {{t \in {At(d, args.working_hours[1], 0, 0) + 30 * 60 * n : n \in 0..47} :
               t < At(d, args.working_hours[2], 0, 0)} : d \in ScannedDays}

FreeOfBusy(t) ==
    \A j \in 1..Len(BusyReported) :
        ~(/\ t < FromIso(BusyReported[j].end).t
          /\ t + args.duration_minutes * 60 > FromIso(BusyReported[j].start).t)

Accepted == {t \in CandidateStarts : FreeOfBusy(t)}

Returned == {FromIso(ret.items[i].start).t : i \in 1..Len(ret.items)}

\* C7: on each scanned day the candidates are dayStart + 30*k minutes with
\* start < dayEnd, each durationMinutes wide, accepted iff they overlap no busy
\* interval (the list returned is made of the earliest accepted ones); with
\* duration 30, hours (9,17) and one busy interval 09:00-10:00 on the first
\* scanned day the first slot returned starts at 10:00 of that day
C7_SlotEnumeration ==
    /\ IsSlotList =>
          /\ Returned \subseteq Accepted
          /\ \A i \in 1..Len(ret.items) : FromIso(ret.items[i].end).t = FromIso(ret.items[i].start).t + args.duration_minutes * 60
          /\ \A a \in Accepted \ Returned : Len(ret.items) = 10 /\ \A r \in Returned : r < a
    /\ (/\ Suggested
        /\ creds = "valid"
        /\ backend.calendarList # "fail"
        /\ backend.freebusy = "ok"
        /\ args.start = Iso(Mon, 0, 0, 0)
        /\ args.end = Iso(Mon + 1, 0, 0, 0)
        /\ args.duration_minutes = 30
        /\ args.working_hours = <<9, 17>>
        /\ BusyReported = <<[start |-> Iso(Mon, 9, 0, 0), end |-> Iso(Mon, 10, 0, 0)]>>
        /\ now.t <= At(Mon, 17, 0, 0))
       => ret.items[1].start = Iso(Mon, 10, 0, 0)

\* the scenario: Monday and Tuesday, 30 minutes, 9-17, busy 09:00-10:00
C7_Witness ==
    /\ IsSlotList
    /\ args.start = Iso(Mon, 0, 0, 0)
    /\ args.end = Iso(Mon + 1, 0, 0, 0)
    /\ args.duration_minutes = 30
    /\ args.working_hours = <<9, 17>>
    /\ BusyReported = <<[start |-> Iso(Mon, 9, 0, 0), end |-> Iso(Mon, 10, 0, 0)]>>
    /\ Len(ret.items) = 10
    /\ ret.items[1].start = Iso(Mon, 10, 0, 0)
    /\ ret.items[2].start = Iso(Mon, 10, 30, 0)

\* time of day, in minutes, a time token stands for, as parser.parse reads it
\* at lines 190-191 (a bare number carries no time of day: 00:00)
TokenMinutes(tok) == TimeTokenHour(tok) * 60 + TimeTokenMinute(tok)

IsClockToken(tok) == tok.ap \in {"am", "pm"} /\ tok.h \in 1..12 /\ tok.m \in -1..59

ClockHour(tok) == (tok.h % 12) + (IF tok.ap = "pm" THEN 12 ELSE 0)

ClockMinute(tok) == IF tok.m = -1 THEN 0 ELSE tok.m

ReferenceUsed == IF args.reference = NoneV THEN now ELSE args.reference

\* C9: "next X" is 1..7 days after the reference date, on weekday X, 7 days
\* when the reference day is X; "this X" is 0..6 days after, 0 when the
\* reference day is X; with "at H[:MM] am|pm" the result has that hour and
\* minute and zero seconds, without an "at" clause it is midnight; on Thursday
\* 2024-03-07 create_calendar_event_object("Sync", "next monday at 10am")
\* starts 2024-03-11T10:00:00, ends 11:00:00 and is not all-day
C9_WeekdayOffsets ==
    /\ (op = "parse_natural_language_datetime" /\ args.start.k = "weekday") =>
          LET p == args.start
              delta == DayOf(ret) - DayOf(ReferenceUsed)
          IN  /\ Weekday(ret) = p.wd
              /\ p.rel = "next" => delta \in 1..7 /\ (Weekday(ReferenceUsed) = p.wd => delta = 7)
              /\ p.rel = "this" => delta \in 0..6 /\ (Weekday(ReferenceUsed) = p.wd => delta = 0)
              /\ p.at = NoTok => SecOfDay(ret) = 0
              /\ IsClockToken(p.at) => SecOfDay(ret) = ClockHour(p.at) * HourSeconds + ClockMinute(p.at) * 60
    /\ (/\ op = "create_calendar_event_object"
        /\ now = Clock(Mon + 3)
        /\ args.start = [k |-> "weekday", rel |-> "next", wd |-> 0, at |-> Tok(10, -1, "am")]
        /\ args.end = NoneV)
       => /\ ~raised
          /\ ret._parsed = [start_dt |-> Iso(Mon + 7, 10, 0, 0), end_dt |-> Iso(Mon + 7, 11, 0, 0), timezone |-> ret._parsed.timezone, all_day |-> FALSE]

\* "next wednesday at 10:30pm" asked on a Wednesday: a week later, 22:30:00
C9_Witness ==
    /\ op = "parse_natural_language_datetime"
    /\ args.start = [k |-> "weekday", rel |-> "next", wd |-> 2, at |-> Tok(10, 30, "pm")]
    /\ Weekday(ReferenceUsed) = 2
    /\ ret = Naive(At(DayOf(ReferenceUsed) + 7, 22, 30, 0))

\* C10: detect_all_day_event is true iff the start is exactly 00:00:00 and the
\* duration is within 0.1 hours (360 seconds), on either side, of a multiple
\* of 24 hours
C10_AllDayIff ==
    (op = "detect_all_day_event" /\ ~raised) =>
        LET r == Diff(args.end_dt, args.start_dt) % DaySeconds
        IN  ret.v = (SecOfDay(args.start_dt) = 0 /\ (r < 360 \/ r > DaySeconds - 360))

\* the call returned an event draft (no exception, no error payload)
IsDraft == op = "create_calendar_event_object" /\ ~raised /\ "error" \notin DOMAIN ret

\* the address get_user_email obtained for the call ("" when unknown)
KnownUserEmail ==
    IF creds = "valid" /\ backend.profile # "fail" THEN backend.profile ELSE ""

DraftAttendees == IF "attendees" \in DOMAIN ret THEN ret.attendees ELSE <<>>

NotTheUser(e) == e # KnownUserEmail

\* C11: when the user's address is known it is the first attendee of the
\* draft and appears exactly once, followed by the supplied attendees in
\* their order without the entries equal (case-sensitively) to that address;
\* attendees = [the user's own address] gives exactly one entry
C11_OwnerFirstOnce ==
    (IsDraft /\ KnownUserEmail # "") =>
        /\ DraftAttendees # <<>>
        /\ DraftAttendees[1] = [email |-> KnownUserEmail]
        /\ Cardinality({i \in 1..Len(DraftAttendees) : DraftAttendees[i].email = KnownUserEmail}) = 1
        /\ [i \in 1..(Len(DraftAttendees) - 1) |-> DraftAttendees[i + 1].email] = SelectSeq(args.attendees, NotTheUser)
        /\ args.attendees = <<KnownUserEmail>> => Len(DraftAttendees) = 1

\* attendees a, me, b with me the user: the draft lists me, a, b
C11_Witness ==
    /\ IsDraft
    /\ KnownUserEmail = "me@x.com"
    /\ args.attendees = <<"a@x.com", "me@x.com", "b@x.com">>
    /\ DraftAttendees = <<[email |-> "me@x.com"], [email |-> "a@x.com"], [email |-> "b@x.com"]>>

\* C20: the attendees of every draft form a set: no address appears twice,
\* also when the supplied list repeats an address
C20_AttendeesDistinct ==
    IsDraft =>
        \A i, j \in 1..Len(DraftAttendees) :
            DraftAttendees[i].email = DraftAttendees[j].email => i = j

\* the UTC instant an ISO-8601 string with an offset (or Z) denotes
IsoInstant(p) == At(p.d, 0, 0, p.s) - p.off * 60

C18_YearOverride ==
    (op = "parse_natural_language_datetime" /\ args.start.k = "fuzzy") =>
        LET p == args.start
        IN  /\ ret # p.dt <=> (~p.year_token /\ YearOf(p.dt) = YearOf(ReferenceUsed) - 1)
            /\ ret # p.dt => ret = ReplaceYear(p.dt, YearOf(ReferenceUsed))
            /\ p.year_token => YearOf(ret) = YearOf(p.dt)

\* C13: parse_event_time("3-4pm"), a range with no date part whose first
\* token lacks the am/pm its second token has, returns today 15:00:00 and
\* today 16:00:00
C13_BareStartSharesMeridiem ==
    (/\ op = "parse_event_time"
     /\ args.start.k = "range"
     /\ args.start.pre = Empty
     /\ args.start.t1 = Tok(3, -1, "")
     /\ args.start.t2 = Tok(4, -1, "pm"))
    => /\ ret.start = Naive(At(DayOf(now), 15, 0, 0))
       /\ ret.end = Naive(At(DayOf(now), 16, 0, 0))

\* C16: every draft returned without an error key has end >= start, with a
\* derived end as well as with an end phrase parsed on its own
C16_DraftEndNotBeforeStart ==
    IsDraft =>
        Instant(FromIso(ret._parsed.end_dt)) >= Instant(FromIso(ret._parsed.start_dt))

\* C17: an ISO-8601 start phrase with no end phrase gives a draft whose start
\* is that very instant and whose end is one hour later
C17_IsoStartWins ==
    (op = "create_calendar_event_object" /\ args.start.k = "iso" /\ ~Given(args.end)) =>
        /\ IsDraft
        /\ ret._parsed.start_dt = IsoFormat(FromIso(args.start))
        /\ ret._parsed.end_dt = IsoFormat(Plus(FromIso(args.start), HourSeconds))

\* C14: once logout has returned "Logged out successfully." the stored
\* credentials stay cleared until a later process_auth_code succeeds,
\* whatever concurrent get_credentials / check_auth_status calls do with an
\* expired token they read before the logout
C14_LoggedOutStaysCleared == session = "loggedout" => creds = "none"

\* C15: the list returned by suggest_meeting_times is strictly ascending by
\* slot start and holds exactly the first min(10, n) of the n accepted
\* candidates: no accepted candidate earlier than a returned slot is left out
C15_FirstTenInOrder ==
    IsSlotList =>
        /\ \A i \in 1..(Len(ret.items) - 1) :
              FromIso(ret.items[i].start).t < FromIso(ret.items[i + 1].start).t
        /\ Len(ret.items) = (IF Cardinality(Accepted) < 10 THEN Cardinality(Accepted) ELSE 10)
        /\ Returned \subseteq Accepted
        /\ \A a \in Accepted \ Returned : \A r \in Returned : r < a

\* a list cut at ten while more candidates were accepted, busy time skipped
C15_Witness ==
    /\ IsSlotList
    /\ Len(ret.items) = 10
    /\ Cardinality(Accepted) > 10
    /\ CandidateStarts # Accepted

\* C19: every instant written into a backend request carries a UTC offset:
\* the timeMin and timeMax of a free/busy query and the start and end
\* dateTime of an event body are aware, a naive instant being localized first
C19_BackendInstantsAware ==
    /\ \A i \in 1..Len(calls) :
          calls[i].api = "freebusy.query" =>
              calls[i].timeMin.aware /\ calls[i].timeMax.aware
    /\ (IsDraft /\ "dateTime" \in DOMAIN ret.start) =>
          ret.start.dateTime.aware /\ ret.end.dateTime.aware

\* C21: parse_event_time never raises, and when the range pattern matched
\* but the date part or one of the two time tokens does not parse, it
\* returns (None, None), not a resolved pair
C21_RangeFailureGivesNone ==
    op = "parse_event_time" =>
        /\ ~raised
        /\ LET rm == RangeMatch(args.start)
           IN  (/\ rm.found
                /\ \/ parse_natural_language_datetime(IF rm.pre.k = "empty" THEN Word("today") ELSE rm.pre, now, now) = NoneV
                   \/ ~TimeTokenOk(rm.t1)
                   \/ ~TimeTokenOk(rm.t2))
               => (ret.start = NoneV /\ ret.end = NoneV)

\* C22: parse_natural_language_datetime is a function of its arguments: for
\* a phrase and an explicitly supplied reference instant, an evaluation at
\* any other wall-clock time returns the same result, on every branch
C22_PureInArguments ==
    (op = "parse_natural_language_datetime" /\ args.reference # NoneV) =>
        \A c \in {Clock(Mon + d) : d \in 0..6} :
            parse_natural_language_datetime(args.start, args.reference, c) = ret

\* C23: in get_free_busy_info, suggest_meeting_times, get_user_timezone and
\* get_user_email the credential check comes before every backend request:
\* when the credential provider returned None no backend call was issued,
\* and the first two return the "Not authenticated" error payload
C23_CredentialCheckFirst ==
    (creds = "none" /\ op \in {"get_free_busy_info", "suggest_meeting_times", "get_user_timezone", "get_user_email"}) =>
        /\ calls = <<>>
        /\ op = "get_free_busy_info" => ret = [error |-> "Not authenticated"]
        /\ op = "suggest_meeting_times" => ret.items = <<[error |-> "Not authenticated"]>>

\* get_user_timezone found the refresh of an expired token refused
C23_Witness ==
    /\ op = "get_user_timezone"
    /\ creds = "none"
    /\ backend.refresh = "RefreshError"
    /\ backend.settings = "Europe/Paris"
    /\ ret = StrV("UTC")
    /\ calls = <<>>

\* C26: get_user_timezone never raises and always returns a timezone id:
\* the settings timezone entry if present, else the primary calendar's
\* timeZone, else "UTC"; "UTC" when there are no credentials or when
\* credential retrieval or a backend call fails
C26_TimezoneNeverRaises ==
    op = "get_user_timezone" =>
        /\ ~raised
        /\ ret = StrV(IF creds # "valid" \/ backend.settings = "fail" THEN "UTC"
                      ELSE IF backend.settings # "none" THEN backend.settings
                      ELSE IF backend.calendarTz \in {"fail", "none"} THEN "UTC"
                      ELSE backend.calendarTz)

\* C24: what suggest_meeting_times returns is either a list of at most 10
\* slot records, none with an error key, or a list of exactly one element
\* {error: <message>}; an upstream failure (no usable credentials, a start
\* or end date that does not parse, a free/busy error, a busy entry that
\* does not parse) gives the error list, and slots and errors are never
\* mixed
C24_SlotsOrOneError ==
    op = "suggest_meeting_times" =>
        /\ ~raised
        /\ \/ IsSlotList /\ Len(ret.items) <= 10
           \/ Len(ret.items) = 1 /\ DOMAIN ret.items[1] = {"error"}
        /\ (\/ creds # "valid"
            \/ TimeArg(args.start, now) = NoneV
            \/ TimeArg(args.end, now) = NoneV
            \/ backend.calendarList = "fail"
            \/ backend.freebusy = "fail"
            \/ \E j \in 1..Len(BusyReported) : BusyReported[j].start.k # "iso" \/ BusyReported[j].end.k # "iso")
           => (Len(ret.items) = 1 /\ DOMAIN ret.items[1] = {"error"})

\* C25: format_datetime_for_api emits, for an all-day value, only date and
\* timeZone; otherwise dateTime with an offset and timeZone, where a naive
\* instant keeps its wall-clock fields and gets the offset of the given
\* timezone (UTC if the identifier is invalid) and an aware instant is
\* emitted unchanged; in an event draft start and end use the same
\* representation, the one _parsed.all_day tells
C25_FormatForApi ==
    /\ op = "format_datetime_for_api" =>
          /\ ~raised
          /\ ret.timeZone = args.timezone
          /\ IF args.all_day
             THEN DOMAIN ret = {"date", "timeZone"} /\ ret.date = DayOf(args.start_dt)
             ELSE /\ DOMAIN ret = {"dateTime", "timeZone"}
                  /\ ret.dateTime.aware
                  /\ ret.dateTime.d = DayOf(args.start_dt)
                  /\ ret.dateTime.s = SecOfDay(args.start_dt)
                  /\ ret.dateTime.off = (IF args.start_dt.aware THEN args.start_dt.off
                                         ELSE IF TzValid(args.timezone) THEN TzOffset(args.timezone)
                                         ELSE 0)
    /\ IsDraft =>
          /\ DOMAIN ret.start = DOMAIN ret.end
          /\ DOMAIN ret.start = (IF ret._parsed.all_day THEN {"date", "timeZone"} ELSE {"dateTime", "timeZone"})

\* a naive 08:00 localized to Europe/Paris
C25_Witness ==
    /\ op = "format_datetime_for_api"
    /\ args.start_dt = Naive(At(Mon, 8, 0, 0))
    /\ args.timezone = "Europe/Paris"
    /\ ~args.all_day
    /\ ret.dateTime = IsoOff(Mon, 8, 0, 0, 60)

\* C27: check_authentication terminates with a verdict: True without any
\* attempt when the stored credentials are valid, otherwise True at the
\* first of at most max_attempts calls of start_oauth_process that
\* succeeds, and False when all of them failed
C27_CheckAuthenticationVerdict ==
    op = "check_authentication" =>
        /\ ~raised
        /\ ret \in {BoolV(TRUE), BoolV(FALSE)}
        /\ creds = "valid" => ret = BoolV(TRUE)

\* C28: every slot suggest_meeting_times returns lies inside the working
\* hours of its day, dayStart <= start and end <= dayEnd, whatever the
\* duration
C28_SlotInsideWorkingHours ==
    IsSlotList =>
        \A i \in 1..Len(ret.items) :
            LET slot_start == FromIso(ret.items[i].start)
                slot_end == FromIso(ret.items[i].end)
            IN  /\ At(DayOf(slot_start), args.working_hours[1], 0, 0) <= slot_start.t
                /\ slot_end.t <= At(DayOf(slot_start), args.working_hours[2], 0, 0)

\* C29: no slot suggest_meeting_times returns starts before the current
\* instant: on a day whose working hours are not over, the candidates
\* already in the past are left out
C29_NoSlotInThePast ==
    IsSlotList =>
        \A i \in 1..Len(ret.items) : FromIso(ret.items[i].start).t >= now.t

\* C30: in every sequence of login and process_auth_code calls,
\* process_auth_code exchanges the code and stores a token only if the state
\* it is given is non-empty and equals the state stored by the most recent
\* login; on a missing or mismatching state it returns the invalid-state
\* error and leaves the token store unchanged
C30_StateGuardsExchange ==
    [][ProcessAuthCode =>
          LET valid == args'.state # "" /\ args'.state = _state
          IN  /\ (creds' # creds \/ ret' = StrV("Authorization successful! You can now use the Gmail MCP server.")) => valid
              /\ ~valid => (/\ ret' = StrV("Error: Invalid state parameter. Authorization failed.")
                            /\ creds' = creds)]_vars

\* a state left over from an earlier login, refused after a newer login,
\* with the token store still empty
C30_Witness ==
    /\ op = "process_auth_code"
    /\ _state = "s2"
    /\ args.state = "s1"
    /\ ret = StrV("Error: Invalid state parameter. Authorization failed.")
    /\ creds = "none"


====
